---- MODULE Spec2Model ----
(***************************************************************************)
(* Model of the agent service: the run orchestrator (routes/runs.ts), the  *)
(* tool-calling loop (adapters/OpenAIAdapter.ts), the tool broker with its *)
(* function names, discovery and invocation (mcp/broker.ts), the SSE event *)
(* bus (api/streams.ts) and the reconnecting client of the bus             *)
(* (discord-bot/src/streaming-client.ts).                                  *)
(*                                                                         *)
(* One action is one task of the Node event loop: the code from one        *)
(* suspension point (an await on I/O or on a timer) to the next, the       *)
(* microtask continuations of already-resolved promises included.          *)
(* hist[r] records, in program order, what run r did: audit writes, the    *)
(* HTTP response, gateway calls and their answers, tool invocations and    *)
(* every call of emitRunEvent, followed by the sequence number the bus     *)
(* gave the event when it gave one.                                        *)
(***************************************************************************)
EXTENDS Integers, Sequences, FiniteSets, TLC

\* ------------------------------------------------------------------ bounds
MaxRuns == 3
\* the runs of the orchestrator specification and of the bus specification
LoopRuns == 2
BusRuns == 1
MaxClients == 2
MaxStepsCap == 2
MaxToolCalls == 1
MaxWords == 1
\* the run of the tool-round specification and the tool calls of one response
ToolRuns == 1
MaxCalls == 2
\* the heartbeat pings written to one subscriber
MaxPings == 1
\* the characters of the name of a provider or of a tool
MaxNameLen == 3
\* the providers of a configuration file and the invocations of the broker
MaxProviders == 2
MaxInvocations == 2
\* the instants (ms) at which something happens: both sides of the dedup
\* window (5000) and of the sweep age (10000), and the boundaries themselves
Instants == {0, 500, 5000, 10500}

\* events the server sends to the streaming client
MaxEvents == 3

\* failures of the client's connection
MaxErrors == 2

\* ------------------------------------------------------- program constants
DEDUP_WINDOW_MS == 5000
\* the characters of a function name
NAME_CAP == 64

RunIds == 1..MaxRuns
ClientIds == 1..MaxClients

\* streaming-client.ts: private maxRetries = 20
maxRetries == 20

\* ---------------------------------------------------------------- requests
\* A prompt is its first 100 characters (head) and the rest (tail).
Requests ==
  { [user |-> "u1", provider |-> "web", replyTo |-> "noMessage", channel |-> "noChannel",
     prompt |-> [head |-> "ping", tail |-> ""]],
    [user |-> "u1", provider |-> "web", replyTo |-> "noMessage", channel |-> "noChannel",
     prompt |-> [head |-> "ping", tail |-> "x"]],
    [user |-> "u2", provider |-> "web", replyTo |-> "noMessage", channel |-> "noChannel",
     prompt |-> [head |-> "ping", tail |-> ""]] }

\* prompt.slice(0, 100)
Slice100(prompt) == prompt.head

DedupKey(req) ==
  <<req.user, req.provider, req.replyTo, req.channel, Slice100(req.prompt)>>

Keys == { DedupKey(q) : q \in Requests }

NoEntry == [timestamp |-> -1, runId |-> 0]

VARIABLES
  clock,        \* Date.now()
  requestCache, \* dedup key -> {timestamp, runId} or NoEntry
  nextRunId,    \* the next fresh run id (uuidv4)
  reply,        \* the latest response of POST /runs
  run,          \* per run: position of processRunAsync / OpenAIAdapter.chat
  hist,         \* per run: what it did, in program order
  clients,      \* streams.ts clients: run id -> set of subscribers
  ids,          \* streams.ts ids: run id -> last sequence number (0: no entry)
  sub,          \* per subscriber: its connection and what was written to it
  timers,       \* per subscriber: pending grace timers (setTimeout 250)
  alive,        \* the process is running (no uncaught exception ended it)
  names,        \* a provider name and a tool name, encoded and decoded again
  mcp,          \* the tool broker: connections, registry, discovery, invocation
  bot           \* the bot's StreamingClient of one run's events

vars == <<clock, requestCache, nextRunId, reply, run, hist, clients, ids, sub, timers,
          alive, names, mcp, bot>>

NoReply == [key |-> <<>>, at |-> -1, id |-> 0, created |-> FALSE]

NoRun == [pc |-> "none", stepCount |-> 0, maxSteps |-> 0, dedupKey |-> <<>>,
          startTime |-> 0, toolsLeft |-> 0, wordsLeft |-> 0, content |-> 0,
          doneWhen |-> 0, calls |-> <<>>, messages |-> <<>>, error |-> ""]

NoSub == [state |-> "free", runId |-> 0, recv |-> <<>>, heartbeat |-> FALSE,
          prompt |-> FALSE, broken |-> FALSE, lastEventId |-> 0, attachedAt |-> 0]

NoSet == [present |-> FALSE, members |-> {}]

\* the three fields of a decoding, before any name was decoded
NoName == [error |-> "not decoded", server |-> <<>>, tool |-> <<>>]

NoNames == [server |-> <<>>, tool |-> <<>>, fn |-> <<>>, decoded |-> NoName]

NoCall == [state |-> "idle", fn |-> <<>>, argsOk |-> TRUE, server |-> <<>>, tool |-> <<>>,
           error |-> "", passes |-> 0, sent |-> <<>>]

NoPass == [at |-> 0, stage |-> "idle", by |-> "none"]

NoListing == [asked |-> FALSE, patterns |-> <<>>, result |-> {}]

\* new McpBroker(config): no connection, no tool; config is the list of the
\* providers in the configuration file, failed the providers that the current
\* pass of start() has logged as failed
NewBroker(config) ==
  [phase |-> "new", config |-> config, clients |-> {}, tools |-> {}, nextConn |-> 1,
   pass |-> NoPass, failed |-> {}, call |-> NoCall, invoked |-> 0, listed |-> NoListing]

NoBroker == NewBroker(<<>>)

\* the service after start-up: no request was received
ServiceInit ==
  /\ clock = 0
  /\ requestCache = [k \in Keys |-> NoEntry]
  /\ nextRunId = 1
  /\ reply = NoReply
  /\ run = [r \in RunIds |-> NoRun]
  /\ hist = [r \in RunIds |-> <<>>]
  /\ clients = [r \in RunIds |-> NoSet]
  /\ ids = [r \in RunIds |-> 0]
  /\ sub = [c \in ClientIds |-> NoSub]
  /\ timers = [c \in ClientIds |-> 0]
  /\ alive = TRUE

\* a StreamingClient after its constructor. clears: what the EventSource of
\* the build does when an on<type> property is assigned, remove the listeners
\* added so far for that type (TRUE) or keep them (FALSE).
NoBot == [phase |-> "new", es |-> 0, nextEs |-> 1, closed |-> FALSE, lastEventId |-> 0,
          retries |-> 0, listeners |-> <<>>, clears |-> FALSE, received |-> <<>>,
          forwarded |-> <<>>, timers |-> 0, errors |-> 0, fatal |-> FALSE]

Init ==
  /\ ServiceInit
  /\ names = NoNames
  /\ mcp = NoBroker
  /\ bot = NoBot

\* ------------------------------------------------------------- history ops
EventKinds == {"plan", "tool_call", "token", "message", "done", "error"}
TerminalKinds == {"done", "error"}

H(op, arg) == <<op, arg>>

\* the subsequence of h whose operation is in S
RECURSIVE Filter(_, _)
Filter(h, S) ==
  IF h = <<>> THEN <<>>
  ELSE IF h[1][1] \in S THEN <<h[1]>> \o Filter(Tail(h), S)
  ELSE Filter(Tail(h), S)

Count(h, S) == Len(Filter(h, S))

Published(h) == Filter(h, EventKinds)

\* ------------------------------------------------------------- event bus
\* mutant: an event without subscribers still takes a sequence number
emitRunEventCounts(b, runId, type, data) ==
  LET subs == b.clients[runId]
      id == b.ids[runId] + 1
      written == { c \in subs.members : ~b.sub[c].broken }
  IN
  IF ~subs.present \/ subs.members = {} THEN [b EXCEPT !.ids[runId] = id]
  ELSE
    [b EXCEPT
       !.ids[runId] = id,
       !.clients[runId].members = written,
       !.sub = [c \in ClientIds |->
                  IF c \in written
                  THEN [b.sub[c] EXCEPT !.recv = Append(@, <<id, type, data>>)]
                  ELSE IF c \in subs.members
                  THEN [b.sub[c] EXCEPT !.heartbeat = FALSE]
                  ELSE b.sub[c]],
       !.timers = [c \in ClientIds |->
                  IF c \in written /\ type \in TerminalKinds
                  THEN b.timers[c] + 1
                  ELSE b.timers[c]]]

\* mutant: the exception of a throwing sink leaves the loop, and the
\* subscribers behind it are not written to
emitRunEventStopsAtFailure(b, runId, type, data) ==
  LET subs == b.clients[runId] IN
  IF ~subs.present \/ subs.members = {} THEN b
  ELSE
    LET id == b.ids[runId] + 1
        written == { c \in subs.members :
                       \A d \in subs.members : b.sub[d].broken => c < d }
    IN
    [b EXCEPT
       !.ids[runId] = id,
       !.sub = [c \in ClientIds |->
                  IF c \in written
                  THEN [b.sub[c] EXCEPT !.recv = Append(@, <<id, type, data>>)]
                  ELSE b.sub[c]],
       !.timers = [c \in ClientIds |->
                  IF c \in written /\ type \in TerminalKinds
                  THEN b.timers[c] + 1
                  ELSE b.timers[c]]]

\* emitRunEvent(runId, type, data) on the bus state b = [clients, ids, sub, timers].
\* A subscriber whose sink is broken throws in writeSse: the catch cancels its
\* heartbeat and removes it.
emitRunEvent(b, runId, type, data) ==
  LET subs == b.clients[runId] IN
  IF ~subs.present \/ subs.members = {} THEN b
  ELSE
    LET id == b.ids[runId] + 1
        written == { c \in subs.members : ~b.sub[c].broken }
    IN
    [b EXCEPT
       !.ids[runId] = id,
       !.clients[runId].members = written,
       !.sub = [c \in ClientIds |->
                  IF c \in written
                  THEN [b.sub[c] EXCEPT !.recv = Append(@, <<id, type, data>>)]
                  ELSE IF c \in subs.members
                  THEN [b.sub[c] EXCEPT !.heartbeat = FALSE]
                  ELSE b.sub[c]],
       !.timers = [c \in ClientIds |->
                  IF c \in written /\ type \in TerminalKinds
                  THEN b.timers[c] + 1
                  ELSE b.timers[c]]]

\* A run's context while one task executes: its record, its history, the
\* bus and the dedup cache.
Ctx(r) == [rs |-> run[r], h |-> hist[r],
           bus |-> [clients |-> clients, ids |-> ids, sub |-> sub, timers |-> timers],
           cache |-> requestCache]

\* onEvent / emitRunEvent called by run r; the history also records the
\* sequence number the bus gave the event, when it gave one
Publish(r, type, data, ctx) ==
  LET b == emitRunEvent(ctx.bus, r, type, data) IN
  [ctx EXCEPT !.h = IF b.ids[r] # ctx.bus.ids[r]
                    THEN @ \o <<H(type, data), H("seq", b.ids[r])>>
                    ELSE Append(@, H(type, data)),
              !.bus = b]

Commit(r, ctx) ==
  /\ run' = [run EXCEPT ![r] = ctx.rs]
  /\ hist' = [hist EXCEPT ![r] = ctx.h]
  /\ clients' = ctx.bus.clients
  /\ ids' = ctx.bus.ids
  /\ sub' = ctx.bus.sub
  /\ timers' = ctx.bus.timers
  /\ requestCache' = ctx.cache

\* ------------------------------------------------------ processRunAsync
\* catch (processingError)
ProcessCatch(r, ctx) ==
  LET c1 == [ctx EXCEPT !.h = Append(@, H("update_error",
                                          <<ctx.rs.error, clock - ctx.rs.startTime>>))]
      c2 == Publish(r, "error", ctx.rs.error, c1)
  IN [c2 EXCEPT !.h = Append(@, H("release", 0)),
                !.cache[ctx.rs.dedupKey] = NoEntry,
                !.rs.pc = "done",
                !.rs.doneWhen = nextRunId]

\* mutant: the success path throws after its audit update and lands in catch
ProcessOkThenCatch(r, ctx) ==
  ProcessCatch(r, [ctx EXCEPT !.h = Append(@, H("update_ok", clock - ctx.rs.startTime))])

\* mutant: the success path leaves the dedup entry in the cache
ProcessOkKeepsEntry(r, ctx) ==
  [ctx EXCEPT !.h = @ \o <<H("update_ok", clock - ctx.rs.startTime), H("release", 0)>>,
              !.rs.pc = "done",
              !.rs.doneWhen = nextRunId]

\* mutant: the success path releases the key without its audit update
ProcessOkNoUpdate(r, ctx) ==
  [ctx EXCEPT !.h = Append(@, H("release", 0)),
              !.cache[ctx.rs.dedupKey] = NoEntry,
              !.rs.pc = "done",
              !.rs.doneWhen = nextRunId]

\* success path after modelAdapter.chat returned
ProcessOk(r, ctx) ==
  [ctx EXCEPT !.h = @ \o <<H("update_ok", clock - ctx.rs.startTime), H("release", 0)>>,
              !.cache[ctx.rs.dedupKey] = NoEntry,
              !.rs.pc = "done",
              !.rs.doneWhen = nextRunId]

\* --------------------------------------------------- OpenAIAdapter.chat
\* catch (error) of chat: an error event, rethrow
ChatCatch(r, ctx) == ProcessCatch(r, Publish(r, "error", ctx.rs.error, ctx))

\* mutant: the exhausted budget is thrown inside the try block
MaxStepsExceededThrows(r, ctx) == ChatCatch(r, ctx)

\* "Max steps exceeded": an error event, then chat returns normally
MaxStepsExceeded(r, ctx) == ProcessOk(r, Publish(r, "error", "Maximum steps exceeded", ctx))

\* mutant: off by one
LoopGuardInclusive(stepCount, maxSteps) == stepCount <= maxSteps

LoopGuard(stepCount, maxSteps) == stepCount < maxSteps

\* while (stepCount < maxSteps) { stepCount++; await create(...) ...
LoopHead(r, ctx) ==
  IF LoopGuard(ctx.rs.stepCount, ctx.rs.maxSteps)
  THEN [ctx EXCEPT !.rs.stepCount = @ + 1,
                   !.rs.pc = "awaitModel",
                   !.h = Append(@, H("call", ctx.rs.stepCount + 1))]
  ELSE MaxStepsExceeded(r, ctx)

\* mutant: done is published before the message
FinalEventsSwapped(r, ctx) ==
  Publish(r, "message", ctx.rs.content, Publish(r, "done", 0, ctx))

\* message, done, return { final }
FinalEvents(r, ctx) ==
  Publish(r, "done", 0, Publish(r, "message", ctx.rs.content, ctx))

FinishAnswer(r, ctx) == ProcessOk(r, FinalEvents(r, ctx))

\* one word of the final answer: a token event, then await setTimeout(50)
EmitToken(r, ctx) ==
  LET c1 == Publish(r, "token", ctx.rs.wordsLeft, ctx)
  IN [c1 EXCEPT !.rs.wordsLeft = @ - 1, !.rs.pc = "streaming"]

RECURSIVE PublishToolCalls(_, _, _)
PublishToolCalls(r, n, ctx) ==
  IF n = 0 THEN ctx
  ELSE Publish(r, "tool_call", n, PublishToolCalls(r, n - 1, ctx))

\* ------------------------------------------------ the tool calls of a round
\* A tool call of a response: its arguments are not JSON (bad_json), its name
\* does not decode to a server and a tool (bad_name), or it reaches the broker.
CallKinds == {"good", "bad_json", "bad_name"}

\* what callByOpenAiName does with a call whose name decodes
Outcomes == {"ok", "not_connected", "bad_args", "provider_error"}

CallLists == UNION { [1..n -> CallKinds] : n \in 1..MaxCalls }

\* toolCall.id of call i of the response to completion request `step`
CallId(step, i) == (step - 1) * MaxCalls + i

Message(role, id, calls, content) ==
  [role |-> role, tool_call_id |-> id, tool_calls |-> calls, content |-> content]

\* the system prompt and the user's prompt
FirstMessages == <<Message("system", 0, <<>>, <<"prompt">>), Message("user", 0, <<>>, <<"prompt">>)>>

\* mutant: a result is put right behind the assistant message of its round
PushToolMessageFirst(messages, id, content) ==
  LET a == CHOOSE i \in DOMAIN messages :
             messages[i].role = "assistant" /\ \A j \in DOMAIN messages : j > i => messages[j].role = "tool"
  IN SubSeq(messages, 1, a) \o <<Message("tool", id, <<>>, content)>>
       \o SubSeq(messages, a + 1, Len(messages))

\* currentMessages.push({ role: 'tool', content, tool_call_id })
PushToolMessage(messages, id, content) ==
  Append(messages, Message("tool", id, <<>>, content))

\* the index, in the response, of the call being executed
CurrentCall(rs) == Len(rs.calls) - rs.toolsLeft + 1

\* the try block completed (ok) or its catch ran: the result of the current call
SettleCall(r, outcome, ctx) ==
  LET id == CallId(ctx.rs.stepCount, CurrentCall(ctx.rs)) IN
  [ctx EXCEPT !.h = Append(@, H(IF outcome = "ok" THEN "tool_ok" ELSE "tool_err", id)),
              !.rs.messages = PushToolMessage(@, id, IF outcome = "ok" THEN <<"result">>
                                                     ELSE <<"error", outcome>>),
              !.rs.toolsLeft = @ - 1]

\* for (const toolCall of message.tool_calls): up to the next await on the
\* broker, or to the end of the round and the next iteration of the loop
RECURSIVE NextCall(_, _)
NextCall(r, ctx) ==
  IF ctx.rs.toolsLeft = 0 THEN LoopHead(r, [ctx EXCEPT !.rs.calls = <<>>])
  ELSE
    LET i == CurrentCall(ctx.rs)
        kind == ctx.rs.calls[i]
        invoked == [ctx EXCEPT !.h = Append(@, H("invoke", i))]
    IN IF kind = "bad_json" THEN NextCall(r, SettleCall(r, kind, ctx))
       ELSE IF kind = "bad_name" THEN NextCall(r, SettleCall(r, kind, invoked))
       ELSE [invoked EXCEPT !.rs.pc = "awaitTool"]

\* mutant: no try/catch around a tool call, its failure leaves the loop
ToolSettledFatal(r, outcome, ctx) ==
  IF outcome = "ok" THEN NextCall(r, SettleCall(r, outcome, ctx))
  ELSE ChatCatch(r, [ctx EXCEPT !.rs.error = outcome])

\* callByOpenAiName returned or threw
ToolSettled(r, outcome, ctx) == NextCall(r, SettleCall(r, outcome, ctx))

\* ------------------------------------------------------------ POST /runs
\* mutant: the comparison is inverted
IsDuplicateInverted(existing, now) ==
  existing # NoEntry /\ (now - existing.timestamp) > DEDUP_WINDOW_MS

IsDuplicate(existing, now) ==
  existing # NoEntry /\ (now - existing.timestamp) < DEDUP_WINDOW_MS

\* "Clean up old entries"
Sweep(cache, now) ==
  [k \in Keys |->
     IF cache[k] # NoEntry /\ now - cache[k].timestamp > DEDUP_WINDOW_MS * 2
     THEN NoEntry ELSE cache[k]]

Respond(r, ctx) == [ctx EXCEPT !.h = Append(@, H("respond", r))]

\* the synchronous part of processRunAsync: the plan event, then chat up to
\* its first await
ProcessRunAsync(r, ctx) == LoopHead(r, Publish(r, "plan", 0, ctx))

\* mutant: the processing is started before the response is sent
AcceptedLate(r, ctx) == Respond(r, ProcessRunAsync(r, ctx))

\* res.json(response); processRunAsync(...)
Accepted(r, ctx) == ProcessRunAsync(r, Respond(r, ctx))

Submit(req, maxSteps) ==
  LET key == DedupKey(req)
      now == clock
      existing == requestCache[key]
  IN
  /\ alive
  /\ IF IsDuplicate(existing, now)
     THEN /\ reply' = [key |-> key, at |-> now, id |-> existing.runId, created |-> FALSE]
          /\ UNCHANGED <<requestCache, nextRunId, run, hist, clients, ids, sub, timers, names, mcp, bot>>
     ELSE /\ nextRunId <= MaxRuns
          /\ LET r == nextRunId
                 c0 == [rs |-> [NoRun EXCEPT !.maxSteps = maxSteps, !.dedupKey = key,
                                             !.startTime = now,
                                             !.messages = FirstMessages],
                        h |-> <<H("insert_running", 0)>>,
                        bus |-> [clients |-> clients, ids |-> ids, sub |-> sub,
                                 timers |-> timers],
                        cache |-> Sweep([requestCache EXCEPT
                                           ![key] = [timestamp |-> now, runId |-> r]], now)]
             IN /\ Commit(r, Accepted(r, c0))
                /\ reply' = [key |-> key, at |-> now, id |-> r, created |-> TRUE]
                /\ nextRunId' = r + 1
  /\ UNCHANGED <<clock, alive, names, mcp, bot>>

\* ----------------------------------------- the Model Gateway answers run r
\* mutant: the failed call is skipped and the loop goes on
ModelThrowsContinues(r) ==
  /\ alive
  /\ run[r].pc = "awaitModel"
  /\ Commit(r, LoopHead(r, [Ctx(r) EXCEPT !.h = Append(@, H("resp_throw", 0))]))
  /\ UNCHANGED <<clock, nextRunId, reply, alive, names, mcp, bot>>

GatewayRejects(r, ctx) ==
  ChatCatch(r, [ctx EXCEPT !.h = Append(@, H("resp_throw", 0)),
                           !.rs.error = "gateway error"])

ModelThrows(r) ==
  /\ alive
  /\ run[r].pc = "awaitModel"
  /\ Commit(r, GatewayRejects(r, Ctx(r)))
  /\ UNCHANGED <<clock, nextRunId, reply, alive, names, mcp, bot>>

\* response.choices[0] is undefined: continue
NoChoice(r, ctx) == LoopHead(r, [ctx EXCEPT !.h = Append(@, H("resp_none", 0))])

ModelNoChoice(r) ==
  /\ alive
  /\ run[r].pc = "awaitModel"
  /\ Commit(r, NoChoice(r, Ctx(r)))
  /\ UNCHANGED <<clock, nextRunId, reply, alive, names, mcp, bot>>

\* tool calls: one tool_call event each, the assistant message, then the
\* calls are executed up to the first await
ToolCalls(r, calls, ctx) ==
  LET n == Len(calls)
      c1 == PublishToolCalls(r, n, [ctx EXCEPT !.h = Append(@, H("resp_tools", n))])
      assistant == Message("assistant", 0, [i \in 1..n |-> CallId(c1.rs.stepCount, i)],
                           <<"content">>)
  IN NextCall(r, [c1 EXCEPT !.rs.messages = Append(@, assistant),
                            !.rs.calls = calls,
                            !.rs.toolsLeft = n])

ModelCalls(r, calls) ==
  /\ alive
  /\ run[r].pc = "awaitModel"
  /\ Commit(r, ToolCalls(r, calls, Ctx(r)))
  /\ UNCHANGED <<clock, nextRunId, reply, alive, names, mcp, bot>>

\* n tool calls that all reach the broker
ModelToolCalls(r, n) == ModelCalls(r, [i \in 1..n |-> "good"])

\* no tool calls: the final answer of `words` words (0: empty content)
FinalResponse(r, words, ctx) ==
  LET c1 == [ctx EXCEPT !.h = Append(@, H("resp_final", words)),
                        !.rs.content = words, !.rs.wordsLeft = words]
  IN IF words > 0 THEN EmitToken(r, c1) ELSE FinishAnswer(r, c1)

ModelFinal(r, words) ==
  /\ alive
  /\ run[r].pc = "awaitModel"
  /\ Commit(r, FinalResponse(r, words, Ctx(r)))
  /\ UNCHANGED <<clock, nextRunId, reply, alive, names, mcp, bot>>

\* the 50 ms delay after a token elapsed
AfterToken(r, ctx) ==
  IF ctx.rs.wordsLeft > 0 THEN EmitToken(r, ctx) ELSE FinishAnswer(r, ctx)

TokenDelay(r) ==
  /\ alive
  /\ run[r].pc = "streaming"
  /\ Commit(r, AfterToken(r, Ctx(r)))
  /\ UNCHANGED <<clock, nextRunId, reply, alive, names, mcp, bot>>

\* a tool invocation returned or failed: its result is appended; then the next
\* tool of the round, or the next iteration of the loop
ToolResult(r, outcome) ==
  /\ alive
  /\ run[r].pc = "awaitTool"
  /\ Commit(r, ToolSettled(r, outcome, Ctx(r)))
  /\ UNCHANGED <<clock, nextRunId, reply, alive, names, mcp, bot>>

\* the provider answered, or its call failed
ToolReturns(r, ok) == ToolResult(r, IF ok THEN "ok" ELSE "provider_error")

\* -------------------------------------------------------------- streamRun
RunStarted(r) == Count(hist[r], {"resp_throw", "resp_none", "resp_tools", "resp_final"}) > 0

\* GET /runs/:id/events for a run id a caller was given, with the request's
\* Last-Event-ID header (0: none), which streamRun does not read
AttachWith(c, r, lastEventId) ==
  /\ alive
  /\ sub[c].state = "free"
  /\ \A d \in ClientIds : d < c => sub[d].state # "free"
  /\ r < nextRunId
  /\ sub' = [sub EXCEPT ![c] = [state |-> "open", runId |-> r, recv |-> <<>>,
                                heartbeat |-> TRUE, prompt |-> ~RunStarted(r),
                                broken |-> FALSE, lastEventId |-> lastEventId,
                                attachedAt |-> Len(Published(hist[r]))]]
  /\ clients' = [clients EXCEPT ![r] = [present |-> TRUE, members |-> @.members \cup {c}]]
  /\ UNCHANGED <<clock, requestCache, nextRunId, reply, run, hist, ids, timers, alive, names, mcp, bot>>

\* mutant: the events published so far are replayed to the new subscriber
AttachReplays(c, r) ==
  LET past == Published(hist[r]) IN
  /\ alive
  /\ sub[c].state = "free"
  /\ \A d \in ClientIds : d < c => sub[d].state # "free"
  /\ r < nextRunId
  /\ sub' = [sub EXCEPT ![c] = [state |-> "open", runId |-> r,
                                recv |-> [i \in DOMAIN past |-> <<i, past[i][1], past[i][2]>>],
                                heartbeat |-> TRUE, prompt |-> ~RunStarted(r),
                                broken |-> FALSE, lastEventId |-> 0,
                                attachedAt |-> Len(past)]]
  /\ clients' = [clients EXCEPT ![r] = [present |-> TRUE, members |-> @.members \cup {c}]]
  /\ UNCHANGED <<clock, requestCache, nextRunId, reply, run, hist, ids, timers, alive, names, mcp, bot>>

Attach(c, r) == AttachWith(c, r, 0)

\* what is written to a subscriber other than pings
Delivered(recv) == SelectSeq(recv, LAMBDA e : e[2] # "ping")

\* StreamingClient: lastEventId after the events of recv (0: undefined)
LastEventId(recv) ==
  IF Delivered(recv) = <<>> THEN 0 ELSE Delivered(recv)[Len(Delivered(recv))][1]

\* StreamingClient.reconnect: the connection of subscription d was lost before
\* a terminal event; a new request carries Last-Event-ID
Reconnect(c, d) ==
  /\ alive
  /\ sub[d].state = "gone"
  /\ \A k \in DOMAIN sub[d].recv : sub[d].recv[k][2] \notin TerminalKinds
  /\ AttachWith(c, sub[d].runId, LastEventId(sub[d].recv))

\* the 15 s heartbeat of a subscriber: a ping without an id (written as 0)
Heartbeat(c) ==
  /\ alive
  /\ sub[c].heartbeat
  /\ ~sub[c].broken
  /\ Len(sub[c].recv) - Len(Delivered(sub[c].recv)) < MaxPings
  /\ sub' = [sub EXCEPT ![c].recv = Append(@, <<0, "ping", 0>>)]
  /\ UNCHANGED <<clock, requestCache, nextRunId, reply, run, hist, clients, ids, timers, alive, names, mcp, bot>>

\* the heartbeat of a subscriber whose sink throws: writeSse throws inside the
\* interval callback, where nothing catches it, and the process exits
HeartbeatThrows(c) ==
  /\ alive
  /\ sub[c].heartbeat
  /\ sub[c].broken
  /\ alive' = FALSE
  /\ UNCHANGED <<clock, requestCache, nextRunId, reply, run, hist, clients, ids, sub, timers, names, mcp, bot>>

\* from now on a write to the sink of c throws
SinkFails(c) ==
  /\ alive
  /\ sub[c].state = "open"
  /\ ~sub[c].broken
  /\ sub' = [sub EXCEPT ![c].broken = TRUE]
  /\ UNCHANGED <<clock, requestCache, nextRunId, reply, run, hist, clients, ids, timers, alive, names, mcp, bot>>

\* mutant: the sequence counter is dropped whenever a subscriber leaves
OnCloseResets(c) ==
  /\ alive
  /\ sub[c].state \in {"open", "ended"}
  /\ LET r == sub[c].runId
         left == clients[r].members \ {c}
     IN /\ clients' = [clients EXCEPT ![r] =
                         IF left = {} THEN NoSet
                         ELSE [present |-> clients[r].present, members |-> left]]
        /\ ids' = [ids EXCEPT ![r] = 0]
  /\ sub' = [sub EXCEPT ![c].state = "gone", ![c].heartbeat = FALSE]
  /\ UNCHANGED <<clock, requestCache, nextRunId, reply, run, hist, timers, alive, names, mcp, bot>>

\* mutant: the sequence counter of the run outlives its last subscriber
OnCloseKeepsCounter(c) ==
  /\ alive
  /\ sub[c].state \in {"open", "ended"}
  /\ LET r == sub[c].runId
         left == clients[r].members \ {c}
     IN clients' = [clients EXCEPT ![r] =
                      IF left = {} THEN NoSet
                      ELSE [present |-> clients[r].present, members |-> left]]
  /\ sub' = [sub EXCEPT ![c].state = "gone", ![c].heartbeat = FALSE]
  /\ UNCHANGED <<clock, requestCache, nextRunId, reply, run, hist, ids, timers, alive, names, mcp, bot>>

\* mutant: the interval of the heartbeat is not cleared
OnCloseKeepsHeartbeat(c) ==
  /\ alive
  /\ sub[c].state \in {"open", "ended"}
  /\ LET r == sub[c].runId
         left == clients[r].members \ {c}
     IN /\ clients' = [clients EXCEPT ![r] =
                         IF left = {} THEN NoSet
                         ELSE [present |-> clients[r].present, members |-> left]]
        /\ ids' = [ids EXCEPT ![r] = IF left = {} THEN 0 ELSE @]
  /\ sub' = [sub EXCEPT ![c].state = "gone"]
  /\ UNCHANGED <<clock, requestCache, nextRunId, reply, run, hist, timers, alive, names, mcp, bot>>

\* onClose: the client went away, or the socket closed after res.end()
OnClose(c) ==
  /\ alive
  /\ sub[c].state \in {"open", "ended"}
  /\ LET r == sub[c].runId
         left == clients[r].members \ {c}
     IN /\ clients' = [clients EXCEPT ![r] =
                         IF left = {} THEN NoSet
                         ELSE [present |-> clients[r].present, members |-> left]]
        /\ ids' = [ids EXCEPT ![r] = IF left = {} THEN 0 ELSE @]
  /\ sub' = [sub EXCEPT ![c].state = "gone", ![c].heartbeat = FALSE]
  /\ UNCHANGED <<clock, requestCache, nextRunId, reply, run, hist, timers, alive, names, mcp, bot>>

\* mutant: the timer ends the response and leaves the subscriber registered
GraceTimerKeepsSubscriber(c) ==
  /\ alive
  /\ timers[c] > 0
  /\ timers' = [timers EXCEPT ![c] = @ - 1]
  /\ sub' = [sub EXCEPT ![c].state = IF @ = "open" THEN "ended" ELSE @]
  /\ UNCHANGED <<clock, requestCache, nextRunId, reply, run, hist, clients, ids, alive, names, mcp, bot>>

\* the 250 ms timer set by a terminal event fires
GraceTimer(c) ==
  /\ alive
  /\ timers[c] > 0
  /\ timers' = [timers EXCEPT ![c] = @ - 1]
  /\ sub' = [sub EXCEPT ![c].state = IF @ = "open" THEN "ended" ELSE @,
                        ![c].heartbeat = FALSE]
  /\ clients' = [clients EXCEPT ![sub[c].runId].members = @ \ {c}]
  /\ UNCHANGED <<clock, requestCache, nextRunId, reply, run, hist, ids, alive, names, mcp, bot>>

\* time passes, to the next instant
Tick ==
  /\ alive
  /\ \E t \in Instants : t > clock
  /\ clock' = CHOOSE t \in Instants : t > clock /\ \A u \in Instants : u > clock => t <= u
  /\ UNCHANGED <<requestCache, nextRunId, reply, run, hist, clients, ids, sub, timers, alive, names, mcp, bot>>

\* POST /runs while fewer than n runs exist
SubmitUpTo(n, req, m) == nextRunId <= n /\ Submit(req, m)

\* the run orchestrator: submits and the progress of the runs
RunNext ==
  \/ \E req \in Requests, m \in 1..MaxStepsCap : SubmitUpTo(LoopRuns, req, m)
  \/ \E r \in RunIds : ModelThrows(r)
  \/ \E r \in RunIds : ModelNoChoice(r)
  \/ \E r \in RunIds, n \in 1..MaxToolCalls : ModelToolCalls(r, n)
  \/ \E r \in RunIds, w \in 0..MaxWords : ModelFinal(r, w)
  \/ \E r \in RunIds : TokenDelay(r)
  \/ \E r \in RunIds, ok \in BOOLEAN : ToolReturns(r, ok)

\* The orchestrator: concurrent runs and their tool-calling loops.
Next == RunNext

Spec == Init /\ [][Next]_vars

\* The dedup cache under the clock: submits, completions of one-step runs on
\* each path by which a run finalizes, and the passing of time.
DedupNext ==
  \/ \E req \in Requests : Submit(req, 1)
  \/ \E r \in RunIds : ModelThrows(r)
  \/ \E r \in RunIds : ModelNoChoice(r)
  \/ \E r \in RunIds : ModelFinal(r, 0)
  \/ Tick

DedupSpec == Init /\ [][DedupNext]_vars

\* One run and its subscribers: the event bus.
BusNext ==
  \/ \E req \in Requests, m \in 1..MaxStepsCap : SubmitUpTo(BusRuns, req, m)
  \/ \E r \in RunIds : ModelThrows(r)
  \/ \E r \in RunIds : ModelNoChoice(r)
  \/ \E r \in RunIds, n \in 1..MaxToolCalls : ModelToolCalls(r, n)
  \/ \E r \in RunIds, w \in 0..MaxWords : ModelFinal(r, w)
  \/ \E r \in RunIds : TokenDelay(r)
  \/ \E r \in RunIds, ok \in BOOLEAN : ToolReturns(r, ok)
  \/ \E c \in ClientIds, r \in RunIds : Attach(c, r)
  \/ \E c \in ClientIds : OnClose(c)
  \/ \E c \in ClientIds : GraceTimer(c)

BusSpec == Init /\ [][BusNext]_vars

\* The bus with heartbeats, failing sinks and reconnecting clients.
StreamNext ==
  \/ BusNext
  \/ \E c, d \in ClientIds : Reconnect(c, d)
  \/ \E c \in ClientIds : Heartbeat(c)
  \/ \E c \in ClientIds : HeartbeatThrows(c)
  \/ \E c \in ClientIds : SinkFails(c)

StreamSpec == Init /\ [][StreamNext]_vars

\* One run and the tool calls of its rounds, each kind of call and each
\* outcome of the broker.
ToolNext ==
  \/ \E req \in Requests, m \in 1..MaxStepsCap : SubmitUpTo(ToolRuns, req, m)
  \/ \E r \in RunIds : ModelThrows(r)
  \/ \E r \in RunIds : ModelNoChoice(r)
  \/ \E r \in RunIds, calls \in CallLists : ModelCalls(r, calls)
  \/ \E r \in RunIds, o \in Outcomes : ToolResult(r, o)
  \/ \E r \in RunIds, w \in 0..MaxWords : ModelFinal(r, w)
  \/ \E r \in RunIds : TokenDelay(r)

ToolSpec == Init /\ [][ToolNext]_vars

\* The same run under the clock: what it records when it ends at some instant.
TimedNext ==
  \/ ToolNext
  \/ Tick

TimedSpec == Init /\ [][TimedNext]_vars

\* ------------------------------------------------- tool names (broker.ts)
\* A string is the sequence of its characters.  The names of providers and
\* tools are the strings of at most MaxNameLen characters over Chars: a
\* lower-case and an upper-case letter, and the three punctuation characters
\* that names of providers and tools carry ("google-workspace",
\* "read_file", "gmail.download_attachment").
Chars == {"a", "A", "-", "_", "."}

Strings(n) == UNION { [1..k -> Chars] : k \in 1..n }

Names == Strings(MaxNameLen)

\* [a-zA-Z0-9_]
WordChars == {"a", "A", "c", "m", "p", "_"}

Mcp == <<"m", "c", "p">>
Sep == <<"_", "_">>

\* s.replace(/from/g, to) for one character
ReplaceAll(s, from, to) == [i \in 1..Len(s) |-> IF s[i] = from THEN to ELSE s[i]]

\* s.replace(/[^a-zA-Z0-9_]/g, '_')
Sanitize(s) == [i \in 1..Len(s) |-> IF s[i] \in WordChars THEN s[i] ELSE "_"]

\* s.slice(0, n)
Slice(s, n) == SubSeq(s, 1, IF Len(s) < n THEN Len(s) ELSE n)

\* s.startsWith(p)
StartsWith(s, p) == Len(s) >= Len(p) /\ SubSeq(s, 1, Len(p)) = p

\* `${server}.${tool}`
fqn(server, tool) == server \o <<".">> \o tool

\* the name before it is cut to NAME_CAP characters
Encoded(server, tool) == Sanitize(Mcp \o Sep \o ReplaceAll(server, "-", "_") \o Sep \o tool)

toOpenAiFunctionName(server, tool) == Slice(Encoded(server, tool), NAME_CAP)

\* the positions at which "__" starts in s
SepAt(s) == { i \in 1..(Len(s) - 1) : s[i] = "_" /\ s[i + 1] = "_" }

\* s.split('__'): the separators are found from left to right, without overlap
RECURSIVE Split(_)
Split(s) ==
  IF SepAt(s) = {} THEN <<s>>
  ELSE LET i == CHOOSE j \in SepAt(s) : \A k \in SepAt(s) : j <= k
       IN  <<SubSeq(s, 1, i - 1)>> \o Split(SubSeq(s, i + 2, Len(s)))

\* parts.join('__')
RECURSIVE Join(_)
Join(parts) ==
  IF Len(parts) = 0 THEN <<>>
  ELSE IF Len(parts) = 1 THEN parts[1]
  ELSE parts[1] \o Sep \o Join(Tail(parts))

\* a thrown error is the record with its message; no error is ""
fromOpenAiFunctionName(fn) ==
  IF ~StartsWith(fn, Mcp \o Sep)
  THEN [error |-> "Not an MCP function", server |-> <<>>, tool |-> <<>>]
  ELSE LET parts == Split(fn)
       IN  IF Len(parts) < 3
           THEN [error |-> "Malformed MCP function name", server |-> <<>>, tool |-> <<>>]
           ELSE [error |-> "", server |-> ReplaceAll(parts[2], "_", "-"),
                 tool |-> Join(SubSeq(parts, 3, Len(parts)))]

\* Every pair of names, encoded and then decoded.
NameInit ==
  /\ ServiceInit
  /\ mcp = NoBroker
  /\ bot = NoBot
  /\ \E s \in Names, t \in Names :
       names = [server |-> s, tool |-> t, fn |-> <<>>, decoded |-> NoName]

Encode ==
  /\ names.fn = <<>>
  /\ names' = [names EXCEPT !.fn = toOpenAiFunctionName(names.server, names.tool)]
  /\ UNCHANGED <<clock, requestCache, nextRunId, reply, run, hist, clients, ids, sub,
                 timers, alive, mcp, bot>>

Decode ==
  /\ names.fn # <<>>
  /\ names.decoded = NoName
  /\ names' = [names EXCEPT !.decoded = fromOpenAiFunctionName(names.fn)]
  /\ UNCHANGED <<clock, requestCache, nextRunId, reply, run, hist, clients, ids, sub,
                 timers, alive, mcp, bot>>

NameNext ==
  \/ Encode
  \/ Decode

NameSpec == NameInit /\ [][NameNext]_vars

\* ------------------------------------------------- tool broker (broker.ts)
\* The providers of the configuration file.  A provider whose entry names a
\* transport the broker does not support (or lacks its command or url) makes
\* connectServer throw before it connects; for the provider "postgres" without
\* a DSN connectServer logs a warning and returns.
Providers ==
  { [name |-> <<"p">>, transport |-> "stdio"],
    [name |-> <<"a", "-", "c">>, transport |-> "stdio"],
    [name |-> <<"m">>, transport |-> "unsupported"],
    [name |-> <<"c">>, transport |-> "stdio without DSN"] }

\* the tools a provider returns from listTools
Advertised(server) ==
  IF server = <<"p">> THEN { <<"a">> }
  ELSE IF server = <<"a", "-", "c">> THEN { <<"a">>, <<"a", ".", "c">> }
  ELSE {}

\* the configuration files: the providers in every order
Configs ==
  { c \in UNION { [1..k -> Providers] : k \in 0..MaxProviders } :
      \A i, j \in DOMAIN c : i # j => c[i] # c[j] }

\* s.toLowerCase()
ToLower(s) == ReplaceAll(s, "A", "a")

\* s.trim()
RECURSIVE Trim(_)
Trim(s) ==
  IF Len(s) = 0 THEN s
  ELSE IF Head(s) = " " THEN Trim(Tail(s))
  ELSE IF s[Len(s)] = " " THEN Trim(SubSeq(s, 1, Len(s) - 1))
  ELSE s

\* s.split(',')
RECURSIVE SplitComma(_)
SplitComma(s) ==
  IF \A i \in 1..Len(s) : s[i] # "," THEN <<s>>
  ELSE LET i == CHOOSE j \in 1..Len(s) : s[j] = "," /\ \A k \in 1..(j - 1) : s[k] # ","
       IN  <<SubSeq(s, 1, i - 1)>> \o SplitComma(SubSeq(s, i + 1, Len(s)))

\* list.join(',')
RECURSIVE JoinComma(_)
JoinComma(list) ==
  IF Len(list) = 0 THEN <<>>
  ELSE IF Len(list) = 1 THEN list[1]
  ELSE list[1] \o <<",">> \o JoinComma(Tail(list))

\* allowedPatterns.join(',').split(',').map(trim).filter(Boolean), as a set
Patterns(allowedPatterns) ==
  LET parts == SplitComma(JoinComma(allowedPatterns))
  IN  { Trim(parts[i]) : i \in 1..Len(parts) } \ { <<>> }

\* the regular expression made of pat: each "*" is ".*", the rest is literal
RECURSIVE Glob(_, _)
Glob(pat, s) ==
  IF Len(pat) = 0 THEN Len(s) = 0
  ELSE IF Head(pat) = "*"
       THEN \E k \in 0..Len(s) : Glob(Tail(pat), SubSeq(s, k + 1, Len(s)))
       ELSE Len(s) > 0 /\ Head(pat) = Head(s) /\ Glob(Tail(pat), Tail(s))

globMatch(name, patterns) ==
  \E p \in patterns :
    LET pat == ToLower(Trim(p))
    IN  /\ pat # <<>>
        /\ pat = <<"*">> \/ Glob(pat, ToLower(name))

\* the functions exposed to the model, each with the tool it was made from
getOpenAIFunctionTools(b, allowedPatterns) ==
  { [name |-> toOpenAiFunctionName(e.server, e.tool), server |-> e.server, tool |-> e.tool] :
      e \in { t \in b.tools : globMatch(t.key, Patterns(allowedPatterns)) } }

\* the allow-lists of profiles: none, all, one provider (in either case),
\* two patterns in one string, an empty pattern
PatternLists ==
  { <<>>,
    << <<"*">> >>,
    << <<"p", ".", "*">> >>,
    << <<"A", "-", "c", ".", "*">> >>,
    << <<"p", ".", "a", ",", " ", "*", "c">> >>,
    << <<" ">> >> }

\* clients.get(server): the connection, 0 for undefined
ClientOf(b, server) ==
  IF \E e \in b.clients : e.server = server
  THEN (CHOOSE e \in b.clients : e.server = server).conn
  ELSE 0

\* clients.set(server, new Client)
SetClient(b, server) ==
  [b EXCEPT !.clients = { e \in @ : e.server # server }
                          \cup { [server |-> server, conn |-> b.nextConn] },
            !.nextConn = @ + 1]

\* tools.set(fqn, {server, def}) for each listed tool
SetTools(b, server, listed) ==
  [b EXCEPT !.tools = { e \in @ : \A t \in listed : e.key # fqn(server, t) }
                        \cup { [key |-> fqn(server, t), server |-> server, tool |-> t] :
                               t \in listed }]

\* the invocation throws
Throw(b, message) == [b EXCEPT !.call.state = "settled", !.call.error = message]

\* callByOpenAiName after the reconnect pass ends with no connection: the pass
\* is run again
AfterLookupRetries(b) ==
  LET conn == ClientOf(b, b.call.server)
  IN  IF conn = 0 THEN [b EXCEPT !.call.passes = @ + 1]
      ELSE IF ~b.call.argsOk THEN Throw(b, "Invalid JSON in args")
      ELSE [b EXCEPT !.call.state = "calling",
                     !.call.sent = Append(@, [conn |-> conn, tool |-> b.call.tool])]

\* callByOpenAiName from the check of the connection to the await of callTool
AfterLookup(b) ==
  LET conn == ClientOf(b, b.call.server)
  IN  IF conn = 0 THEN Throw(b, "MCP server not connected")
      ELSE IF ~b.call.argsOk THEN Throw(b, "Invalid JSON in args")
      ELSE [b EXCEPT !.call.state = "calling",
                     !.call.sent = Append(@, [conn |-> conn, tool |-> b.call.tool])]

\* start() returns: the service is up, or the invocation that ran it goes on
PassEnds(b) ==
  IF b.pass.by = "call"
  THEN AfterLookup([b EXCEPT !.pass = NoPass])
  ELSE [b EXCEPT !.pass = NoPass, !.phase = "up"]

\* the provider is logged and left out: logger.error('Failed to connect MCP
\* server') in the catch of start(), logger.warn('Skipping postgres MCP') in
\* connectServer
Fail(b, i) == [b EXCEPT !.failed = @ \cup { b.config[i].name }]

\* the loop of start() from the i-th provider on, up to the next await of
\* connectServer: a provider whose connectServer throws or returns at once is
\* logged
RECURSIVE Advance(_, _)
Advance(b, i) ==
  IF i > Len(b.config) THEN PassEnds(b)
  ELSE IF b.config[i].transport # "stdio" THEN Advance(Fail(b, i), i + 1)
  ELSE [b EXCEPT !.pass.at = i, !.pass.stage = "connect"]

\* start(): the configuration is read and the first provider is connected
StartPass(b, by) ==
  Advance([b EXCEPT !.pass = [at |-> 0, stage |-> "idle", by |-> by], !.failed = {}], 1)

\* the broker is started with the service
Start ==
  /\ alive
  /\ mcp.phase = "new"
  /\ mcp' = StartPass([mcp EXCEPT !.phase = "starting"], "boot")
  /\ UNCHANGED <<clock, requestCache, nextRunId, reply, run, hist, clients, ids, sub,
                 timers, alive, names, bot>>

\* client.connect resolves: the connection is stored and the tools are asked for
ConnectOk ==
  /\ alive
  /\ mcp.pass.stage = "connect"
  /\ mcp' = [SetClient(mcp, mcp.config[mcp.pass.at].name) EXCEPT !.pass.stage = "list"]
  /\ UNCHANGED <<clock, requestCache, nextRunId, reply, run, hist, clients, ids, sub,
                 timers, alive, names, bot>>

\* client.connect rejects: the catch of start() logs it
ConnectFails ==
  /\ alive
  /\ mcp.pass.stage = "connect"
  /\ mcp' = Advance(Fail(mcp, mcp.pass.at), mcp.pass.at + 1)
  /\ UNCHANGED <<clock, requestCache, nextRunId, reply, run, hist, clients, ids, sub,
                 timers, alive, names, bot>>

\* a failed listing ends the pass
ListFailsEndsPass ==
  /\ alive
  /\ mcp.pass.stage = "list"
  /\ mcp' = PassEnds(Fail(mcp, mcp.pass.at))
  /\ UNCHANGED <<clock, requestCache, nextRunId, reply, run, hist, clients, ids, sub,
                 timers, alive, names, bot>>

\* client.listTools resolves: its tools are registered
ListOk ==
  /\ alive
  /\ mcp.pass.stage = "list"
  /\ LET server == mcp.config[mcp.pass.at].name
     IN  mcp' = Advance(SetTools(mcp, server, Advertised(server)), mcp.pass.at + 1)
  /\ UNCHANGED <<clock, requestCache, nextRunId, reply, run, hist, clients, ids, sub,
                 timers, alive, names, bot>>

\* client.listTools rejects: the catch of start() logs it
ListFails ==
  /\ alive
  /\ mcp.pass.stage = "list"
  /\ mcp' = Advance(Fail(mcp, mcp.pass.at), mcp.pass.at + 1)
  /\ UNCHANGED <<clock, requestCache, nextRunId, reply, run, hist, clients, ids, sub,
                 timers, alive, names, bot>>

\* runs.ts asks for the functions of a profile
GetTools(allowedPatterns) ==
  /\ alive
  /\ mcp.phase = "up"
  /\ mcp.call.state = "idle"
  /\ mcp' = [mcp EXCEPT !.listed = [asked |-> TRUE, patterns |-> allowedPatterns,
                                    result |-> getOpenAIFunctionTools(mcp, allowedPatterns)]]
  /\ UNCHANGED <<clock, requestCache, nextRunId, reply, run, hist, clients, ids, sub,
                 timers, alive, names, bot>>

\* the function names the model may answer with: the name of every advertised
\* tool, a name without the prefix and a name of two segments
CallNames ==
  UNION { { toOpenAiFunctionName(p.name, t) : t \in Advertised(p.name) } : p \in Providers }
    \cup { <<"a">>, Mcp \o Sep \o <<"p">> }

\* the invocation looks the connection up before it decodes the name
callByOpenAiNameLooksUpFirst(b, fn, argsOk) ==
  LET d  == fromOpenAiFunctionName(fn)
      b0 == [b EXCEPT !.invoked = @ + 1,
                      !.call = [NoCall EXCEPT !.state = "started", !.fn = fn,
                                              !.argsOk = argsOk, !.server = d.server,
                                              !.tool = d.tool]]
  IN  IF ClientOf(b0, d.server) = 0
      THEN StartPass([b0 EXCEPT !.call.passes = @ + 1], "call")
      ELSE IF d.error # "" THEN Throw(b0, d.error)
      ELSE AfterLookup(b0)

\* callByOpenAiName up to its first await
callByOpenAiName(b, fn, argsOk) ==
  LET d  == fromOpenAiFunctionName(fn)
      b0 == [b EXCEPT !.invoked = @ + 1,
                      !.call = [NoCall EXCEPT !.state = "started", !.fn = fn,
                                              !.argsOk = argsOk, !.server = d.server,
                                              !.tool = d.tool]]
  IN  IF d.error # "" THEN Throw(b0, d.error)
      ELSE IF ClientOf(b0, d.server) = 0
      THEN StartPass([b0 EXCEPT !.call.passes = @ + 1], "call")
      ELSE AfterLookup(b0)

\* the adapter invokes a function of the model's answer
Invoke(fn, argsOk) ==
  /\ alive
  /\ mcp.phase = "up"
  /\ mcp.call.state \in {"idle", "settled"}
  /\ mcp.invoked < MaxInvocations
  /\ mcp' = callByOpenAiName(mcp, fn, argsOk)
  /\ UNCHANGED <<clock, requestCache, nextRunId, reply, run, hist, clients, ids, sub,
                 timers, alive, names, bot>>

\* client.callTool settles: the result is returned or the error is thrown on
CallReturns(ok) ==
  /\ alive
  /\ mcp.call.state = "calling"
  /\ mcp' = Throw(mcp, IF ok THEN "" ELSE "provider error")
  /\ UNCHANGED <<clock, requestCache, nextRunId, reply, run, hist, clients, ids, sub,
                 timers, alive, names, bot>>

\* Each configuration: discovery, the functions of a profile, an invocation.
BrokerInit ==
  /\ ServiceInit
  /\ names = NoNames
  /\ bot = NoBot
  /\ \E c \in Configs : mcp = NewBroker(c)

BrokerNext ==
  \/ Start
  \/ ConnectOk
  \/ ConnectFails
  \/ ListOk
  \/ ListFails
  \/ \E l \in PatternLists : GetTools(l)
  \/ \E fn \in CallNames, argsOk \in BOOLEAN : Invoke(fn, argsOk)
  \/ \E ok \in BOOLEAN : CallReturns(ok)

BrokerSpec == BrokerInit /\ [][BrokerNext]_vars

\* --------------------------------------------------- the body of POST /runs
\* The JSON body as express.json() hands it to the handler: the user is an
\* object or absent, the prompt is the string "ping", the array ["ping"], a
\* number or absent.
PromptTypes == {"string", "array", "number", "undefined"}

Bodies == [user : {"u1", "absent"}, prompt : PromptTypes]

\* prompt.slice is a function: of a string and of an array
HasSlice(type) == type \in {"string", "array"}

\* user.id or prompt.slice(0, 100) raises a TypeError
Throws(body) == body.user = "absent" \/ ~HasSlice(body.prompt)

\* what the handler reads of a body that does not throw: join(':') prints the
\* slice of the array ["ping"] as it prints the slice of the string "ping"
AsRequest(body) ==
  [user |-> body.user, provider |-> "web", replyTo |-> "noMessage", channel |-> "noChannel",
   prompt |-> [head |-> "ping", tail |-> ""]]

\* POST /runs with any body: the catch answers 500; its clean-up of the dedup
\* cache raises the same TypeError and is ignored
Post(body, maxSteps) ==
  IF Throws(body)
  THEN /\ alive
       /\ reply' = [key |-> <<>>, at |-> clock, id |-> 0, created |-> FALSE]
       /\ UNCHANGED <<clock, requestCache, nextRunId, run, hist, clients, ids, sub, timers,
                      alive, names, mcp, bot>>
  ELSE Submit(AsRequest(body), maxSteps)

\* The orchestrator with request bodies of every shape.
IntakeNext ==
  \/ \E body \in Bodies, m \in 1..MaxStepsCap : nextRunId <= LoopRuns /\ Post(body, m)
  \/ RunNext

IntakeSpec == Init /\ [][IntakeNext]_vars

\* ------------------------------------------- POST /runs: the insert fails
\* mutant: the catch answers without its clean-up
CatchCleanupSkipped(cache, key) == cache

\* the catch of POST /runs: requestCache.delete(dedupKey)
CatchCleanup(cache, key) == [cache EXCEPT ![key] = NoEntry]

\* POST /runs when db.insert rejects: the key was claimed and the old entries
\* swept; the catch releases the key and answers 500.  The id of the request
\* is kept nowhere.
SubmitFails(req) ==
  LET key == DedupKey(req)
      now == clock
  IN
  /\ alive
  /\ ~IsDuplicate(requestCache[key], now)
  /\ nextRunId <= MaxRuns
  /\ requestCache' =
       CatchCleanup(Sweep([requestCache EXCEPT
                             ![key] = [timestamp |-> now, runId |-> nextRunId]], now), key)
  /\ reply' = [key |-> <<>>, at |-> now, id |-> 0, created |-> FALSE]
  /\ UNCHANGED <<clock, nextRunId, run, hist, clients, ids, sub, timers, alive, names, mcp, bot>>

\* The dedup cache when the audit store may reject the insert.
ClaimNext ==
  \/ DedupNext
  \/ \E req \in Requests : SubmitFails(req)

ClaimSpec == Init /\ [][ClaimNext]_vars

\* ------------------------------------------------ runs that must terminate
\* what run r waits for arrives: the answer of the Model Gateway, the result
\* of a tool call or the timer between two tokens
RunProgress(r) ==
  \/ ModelThrows(r)
  \/ ModelNoChoice(r)
  \/ \E n \in 1..MaxToolCalls : ModelToolCalls(r, n)
  \/ \E w \in 0..MaxWords : ModelFinal(r, w)
  \/ TokenDelay(r)
  \/ \E ok \in BOOLEAN : ToolReturns(r, ok)

\* every call of the Model Gateway and of a tool returns or fails
CallsReturn == \A r \in RunIds : WF_vars(RunProgress(r))

\* The orchestrator alone, and the run with its subscribers, when every call
\* returns.
FairSpec == Spec /\ CallsReturn

LiveSpec == StreamSpec /\ CallsReturn

\* ------------------------------------- the bot's client (streaming-client.ts)
ClientKinds == {"plan", "tool_call", "token", "message", "error", "done", "ping"}

\* the event names of the forEach, in its order
ListenedKinds == <<"plan", "tool_call", "token", "message", "error", "done", "ping">>

\* es.on<type> = fn: the handler property replaces the handler assigned before
\* it and, with an EventSource that clears, every listener of the type
SetHandler(ls, type, fn, clears) ==
  LET Kept(l) == l.type # type \/ (~clears /\ ~l.prop)
  IN SelectSeq(ls, Kept) \o <<[type |-> type, fn |-> fn, prop |-> TRUE]>>

\* es.addEventListener(evt, forward(evt)) for each of the names
RECURSIVE AddListeners(_, _)
AddListeners(ls, kinds) ==
  IF kinds = <<>> THEN ls
  ELSE AddListeners(Append(ls, [type |-> Head(kinds), fn |-> Head(kinds), prop |-> FALSE]),
                    Tail(kinds))

\* open(): a new EventSource with onmessage, the named listeners and onerror
open(b) ==
  [b EXCEPT !.es = b.nextEs,
            !.nextEs = @ + 1,
            !.listeners =
               SetHandler(AddListeners(SetHandler(<<>>, "message", "message", b.clears),
                                       ListenedKinds),
                          "error", "onerror", b.clears)]

disconnect(b) == [b EXCEPT !.closed = TRUE, !.es = 0]

\* forward(type)(e): the event is handed to onEvent under the name the
\* handler was made for; done and error disconnect
forward(b, type, e) ==
  LET c == [b EXCEPT !.lastEventId = e.id,
                     !.forwarded = Append(@, <<e.n, type>>)]
  IN IF type \in TerminalKinds THEN disconnect(c) ELSE c

\* es.onerror; onFatal is the callback of handleStreamingResponse, which
\* disconnects
onerror(b) ==
  IF b.closed THEN b
  ELSE LET c == [b EXCEPT !.retries = @ + 1]
       IN IF c.retries <= maxRetries
          THEN [c EXCEPT !.timers = @ + 1]
          ELSE disconnect([c EXCEPT !.fatal = TRUE])

\* the EventSource hands the event e to the handlers of its type, in the
\* order of their registration
RECURSIVE Dispatch(_, _, _)
Dispatch(b, ls, e) ==
  IF ls = <<>> THEN b
  ELSE LET l == Head(ls)
           c == IF l.type # e.type THEN b
                ELSE IF l.fn = "onerror" THEN onerror(b)
                ELSE forward(b, l.fn, e)
       IN Dispatch(c, Tail(ls), e)

\* connect(runId, apiBaseUrl)
BotConnect ==
  /\ bot.phase = "new"
  /\ bot' = open([bot EXCEPT !.phase = "connected", !.closed = FALSE, !.retries = 0])
  /\ UNCHANGED <<clock, requestCache, nextRunId, reply, run, hist, clients, ids, sub,
                 timers, alive, names, mcp>>

\* the server sends an event of the kind type on the open connection
ServerEvent(type) ==
  LET n == Len(bot.received) + 1 IN
  /\ bot.es # 0
  /\ n <= MaxEvents
  /\ bot' = Dispatch([bot EXCEPT !.received = Append(@, <<n, type>>)], bot.listeners,
                     [n |-> n, type |-> type, id |-> n])
  /\ UNCHANGED <<clock, requestCache, nextRunId, reply, run, hist, clients, ids, sub,
                 timers, alive, names, mcp>>

\* the connection fails: the EventSource raises its own error event
ConnectionError ==
  /\ bot.es # 0
  /\ bot.errors < MaxErrors
  /\ bot' = Dispatch([bot EXCEPT !.errors = @ + 1], bot.listeners,
                     [n |-> 0, type |-> "error", id |-> 0])
  /\ UNCHANGED <<clock, requestCache, nextRunId, reply, run, hist, clients, ids, sub,
                 timers, alive, names, mcp>>

\* setTimeout(() => this.reconnect(), delay) fires
ReconnectTimer ==
  /\ bot.timers > 0
  /\ LET b == [bot EXCEPT !.timers = @ - 1]
     IN bot' = IF b.closed THEN b ELSE open(b)
  /\ UNCHANGED <<clock, requestCache, nextRunId, reply, run, hist, clients, ids, sub,
                 timers, alive, names, mcp>>

ClientInit ==
  /\ ServiceInit
  /\ names = NoNames
  /\ mcp = NoBroker
  /\ \E clears \in BOOLEAN : bot = [NoBot EXCEPT !.clears = clears]

ClientNext ==
  \/ BotConnect
  \/ \E type \in ClientKinds : ServerEvent(type)
  \/ ConnectionError
  \/ ReconnectTimer

ClientSpec == ClientInit /\ [][ClientNext]_vars

\* ------------------------------------------------------------ the claims
Created(r) == r < nextRunId
Finalized(r) == run[r].pc = "done"
AuditOps == {"insert_running", "update_ok", "update_error"}
Ops(h) == [i \in DOMAIN h |-> h[i][1]]
AuditWrites(h) == Ops(Filter(h, AuditOps))

\* no run with r's fingerprint has finalized since r was created
NoFinalSince(r) ==
  \A q \in RunIds :
    (run[q].pc = "done" /\ run[q].dedupKey = run[r].dedupKey) => run[q].doneWhen <= r

\* C1 as stated: requests with the same fingerprint submitted within the dedup
\* window of each other create exactly one run, whatever completes in between,
\* and a request answered as a duplicate receives the id of that run.
C1_OneRunPerWindow ==
  /\ \A r1, r2 \in RunIds :
       (r1 < r2 /\ Created(r2) /\ run[r1].dedupKey = run[r2].dedupKey)
         => run[r2].startTime - run[r1].startTime >= DEDUP_WINDOW_MS
  /\ (reply # NoReply /\ ~reply.created) =>
       \A r \in RunIds :
         (Created(r) /\ run[r].dedupKey = reply.key
            /\ reply.at - run[r].startTime < DEDUP_WINDOW_MS) => reply.id = r

\* C1 amended: a request submitted less than 5 s after the request that created
\* run r with the same fingerprint, while no run with that fingerprint has
\* finalized since r was created, creates no run and receives r's id.
C1_DedupInFlight ==
  [][ reply' # reply =>
        \A r \in RunIds :
          ( /\ Created(r)
            /\ run[r].dedupKey = reply'.key
            /\ reply'.at - run[r].startTime < DEDUP_WINDOW_MS
            /\ NoFinalSince(r) )
          => (reply'.id = r /\ ~reply'.created /\ nextRunId' = nextRunId /\ hist' = hist)
    ]_vars

\* a duplicate submitted 500 ms after the request whose run is still in flight
C1_Witness ==
  /\ reply # NoReply /\ ~reply.created
  /\ ~Finalized(reply.id)
  /\ reply.at = run[reply.id].startTime + 500

\* C2: every run publishes exactly one terminal event (one done or one error)
\* over its lifetime: never two while it runs, exactly one once it has ended.
C2_OneTerminalEvent ==
  \A r \in RunIds :
    /\ Count(hist[r], TerminalKinds) <= 1
    /\ Finalized(r) => Count(hist[r], TerminalKinds) = 1

BudgetExhaustedByTools(r) ==
  Finalized(r) /\ Count(hist[r], {"resp_tools"}) = run[r].maxSteps

\* C3: a run whose every completion returned tool calls until the step budget
\* was used up ends with audit status error.
C3_BudgetExhaustedEndsError ==
  \A r \in RunIds :
    BudgetExhaustedByTools(r) =>
      AuditWrites(hist[r]) = <<"insert_running", "update_error">>

\* C4: a run whose step budget was exhausted by tool calls has published
\* exactly one error event and no done event.
C4_BudgetExhaustedOneError ==
  \A r \in RunIds :
    BudgetExhaustedByTools(r) =>
      Count(hist[r], {"error"}) = 1 /\ Count(hist[r], {"done"}) = 0

C4_Witness ==
  \E r \in RunIds : BudgetExhaustedByTools(r) /\ run[r].maxSteps = MaxStepsCap

\* C5: the completions a run requested from the Model Gateway never exceed its
\* maxSteps, whatever the model answered.
C5_CallsWithinBudget ==
  \A r \in RunIds :
    /\ Count(hist[r], {"call"}) <= run[r].maxSteps
    /\ run[r].stepCount = Count(hist[r], {"call"})

\* a run that used its whole budget on a response without a choice and on
\* tool calls
C5_Witness ==
  \E r \in RunIds :
    /\ Finalized(r)
    /\ run[r].maxSteps = MaxStepsCap
    /\ Count(hist[r], {"call"}) = run[r].maxSteps
    /\ Count(hist[r], {"resp_none"}) > 0
    /\ Count(hist[r], {"resp_tools"}) > 0

\* C6: once a run has reached its terminal state and no grace timer is pending
\* for a subscriber attached to it, that subscriber has received a done or an
\* error event (no open subscriber is left with nothing more to come).
C6_NoSubscriberLeftWaiting ==
  \A c \in ClientIds :
    (sub[c].state = "open" /\ Finalized(sub[c].runId) /\ timers[c] = 0)
      => \E k \in DOMAIN sub[c].recv : sub[c].recv[k][2] \in TerminalKinds

\* C7: the handle is returned before the run's first Model Gateway call: in a
\* run's history every call comes after the response.
C7_HandleBeforeFirstCall ==
  \A r \in RunIds :
    \A i \in DOMAIN hist[r] :
      hist[r][i][1] \in {"call", "plan"} =>
        \E j \in 1..(i - 1) : hist[r][j] = H("respond", r)

C7_Witness ==
  \E r \in RunIds : Count(hist[r], {"call"}) = MaxStepsCap /\ Count(hist[r], {"respond"}) = 1

\* C8: a subscriber that attached before the run progressed past the return of
\* its handle has been sent every event the run published, the plan event
\* included.
C8_PromptSubscriberSeesAll ==
  \A c \in ClientIds :
    (sub[c].state = "open" /\ sub[c].prompt) =>
      LET pub == Published(hist[sub[c].runId])
          got == sub[c].recv
      IN /\ Len(got) = Len(pub)
         /\ \A k \in DOMAIN got : got[k][2] = pub[k][1] /\ got[k][3] = pub[k][2]

\* C9: the audit writes of a run are the insert with status running, then at
\* most one update, to ok or to error: a terminal status is never overwritten.
C9_StatusOneWay ==
  \A r \in RunIds :
    AuditWrites(hist[r]) \in { <<>>, <<"insert_running">>,
                               <<"insert_running", "update_ok">>,
                               <<"insert_running", "update_error">> }

\* one run ended ok and another ended in error
C9_Witness ==
  \E r1, r2 \in RunIds :
    /\ AuditWrites(hist[r1]) = <<"insert_running", "update_ok">>
    /\ AuditWrites(hist[r2]) = <<"insert_running", "update_error">>

\* the events published after position i of history h
EventsAfter(h, i) == Published(SubSeq(h, i + 1, Len(h)))

\* C10: after a response without tool calls the run publishes the tokens of
\* the answer, then a message event carrying the content, then done; nothing
\* is published after done, and the run ends with status ok.
C10_FinalAnswer ==
  \A r \in RunIds :
    LET h == hist[r] IN
    /\ \A i, j \in DOMAIN h : (i < j /\ h[i][1] = "done") => h[j][1] \notin EventKinds
    /\ \A i \in DOMAIN h :
         (h[i][1] = "resp_final" /\ Finalized(r)) =>
           LET ev == EventsAfter(h, i)
               n == Len(ev)
           IN /\ n >= 2
              /\ ev[n] = H("done", 0)
              /\ ev[n - 1] = H("message", h[i][2])
              /\ \A k \in 1..(n - 2) : ev[k][1] = "token"
              /\ AuditWrites(h) = <<"insert_running", "update_ok">>

\* a run that ended with a non-empty final answer after a round of tool calls
C10_Witness ==
  \E r \in RunIds :
    /\ Finalized(r)
    /\ Count(hist[r], {"resp_tools"}) > 0
    /\ \E i \in DOMAIN hist[r] : hist[r][i] = H("resp_final", MaxWords)

\* ---------------------------------------------------------- tool rounds
ToolOps == {"tool_ok", "tool_err"}

\* the end of the round that the response at position i of h opened: the next
\* completion request or the event of the exhausted budget (0: still open)
RoundEnd(h, i) ==
  LET E == { j \in DOMAIN h : j > i /\ h[j][1] \in {"call", "error"} }
  IN IF E = {} THEN 0 ELSE CHOOSE j \in E : \A k \in E : j <= k

\* C11: a failing tool call never ends the run: its error is appended as the
\* tool-result message of that call, the remaining calls of the round are
\* still executed (a closed round has one result per call), the loop goes on
\* to the next call, the next completion request or the exhausted budget, and
\* a run that finalized without a gateway failure is not recorded as failed.
C11_ToolFailureContained ==
  \A r \in RunIds :
    LET h == hist[r]
        m == run[r].messages
    IN /\ \A i \in DOMAIN h :
            h[i][1] = "tool_err" =>
              /\ \E k \in DOMAIN m : /\ m[k].role = "tool"
                                      /\ m[k].tool_call_id = h[i][2]
                                      /\ m[k].content[1] = "error"
              /\ i < Len(h)
              /\ \/ h[i + 1][1] \in {"invoke", "tool_err", "call"}
                 \/ h[i + 1] = H("error", "Maximum steps exceeded")
       /\ \A i \in DOMAIN h :
            (h[i][1] = "resp_tools" /\ RoundEnd(h, i) # 0) =>
              Count(SubSeq(h, i + 1, RoundEnd(h, i) - 1), ToolOps) = h[i][2]
       /\ (Finalized(r) /\ Count(h, {"resp_throw"}) = 0) => Count(h, {"update_error"}) = 0

\* a run whose first call of a two-call round failed in the broker, whose
\* second call was executed, and which went on to its final answer
C11_Witness ==
  \E r \in RunIds :
    /\ Finalized(r)
    /\ Count(hist[r], {"done"}) = 1
    /\ \E i, j \in DOMAIN hist[r] :
         /\ i < j
         /\ hist[r][i] = H("tool_err", CallId(1, 1))
         /\ hist[r][j] = H("tool_ok", CallId(1, 2))
    /\ \E k \in DOMAIN run[r].messages :
         run[r].messages[k].content = <<"error", "not_connected">>

\* the messages behind the assistant message at position a, up to the next
\* assistant message
Following(m, a) ==
  LET N == { j \in DOMAIN m : j > a /\ m[j].role = "assistant" }
  IN IF N = {} THEN Len(m) - a ELSE (CHOOSE j \in N : \A k \in N : j <= k) - a - 1

\* C12: the tool-result messages of a round follow its assistant message, one
\* per tool call, in call order, each with the id of its call; while the round
\* is executing they are the results of its first calls, and when the next
\* completion request is made (or the loop has ended) none is missing.
C12_ResultsInCallOrder ==
  \A r \in RunIds :
    LET m == run[r].messages IN
    /\ \A k \in DOMAIN m :
         m[k].role = "tool" => \E a \in DOMAIN m : a < k /\ m[a].role = "assistant"
    /\ \A a \in DOMAIN m :
         m[a].role = "assistant" =>
           LET calls == m[a].tool_calls
               f == Following(m, a)
           IN /\ f <= Len(calls)
              /\ \A i \in 1..f : /\ m[a + i].role = "tool"
                                  /\ m[a + i].tool_call_id = calls[i]
              /\ (run[r].pc # "awaitTool" \/ a + f < Len(m)) => f = Len(calls)
              /\ (run[r].pc = "awaitTool" /\ a + f = Len(m)) =>
                   f = Len(calls) - run[r].toolsLeft

\* the second completion request is pending and the first round's two calls,
\* one failed and one answered, have their results in call order
C12_Witness ==
  \E r \in RunIds :
    /\ alive
  /\ run[r].pc = "awaitModel"
    /\ run[r].stepCount = 2
    /\ Len(run[r].messages) = 5
    /\ run[r].messages[3].tool_calls = <<CallId(1, 1), CallId(1, 2)>>
    /\ run[r].messages[4] = Message("tool", CallId(1, 1), <<>>, <<"error", "bad_args">>)
    /\ run[r].messages[5] = Message("tool", CallId(1, 2), <<>>, <<"result">>)

\* ------------------------------------------------------- gateway failure
\* the history of r from its failed gateway call on (empty: none failed)
SinceThrow(h) ==
  LET T == { i \in DOMAIN h : h[i][1] = "resp_throw" }
  IN IF T = {} THEN <<>> ELSE SubSeq(h, CHOOSE i \in T : \A k \in T : i <= k, Len(h))

\* C13: when a gateway call throws the run is terminated: no model or tool
\* call follows, an error event with the error text is published, and the
\* audit record is updated to error with the error text and the time elapsed
\* since the run started; that update is its last audit write.
C13_GatewayFailureEndsRun ==
  /\ [](\A r \in RunIds :
          LET t == SinceThrow(hist[r]) IN
          t # <<>> =>
            /\ Finalized(r)
            /\ Count(t, {"call", "invoke", "resp_none", "resp_tools", "resp_final"}) = 0
            /\ \E i \in DOMAIN t : t[i] = H("error", "gateway error")
            /\ Count(t, {"update_error"}) = 1
            /\ AuditWrites(hist[r])[Len(AuditWrites(hist[r]))] = "update_error")
  /\ [][\A r \in RunIds :
          (SinceThrow(hist[r]) = <<>> /\ SinceThrow(hist'[r]) # <<>>) =>
            \E i \in DOMAIN hist'[r] :
              hist'[r][i] = H("update_error", <<"gateway error", clock - run[r].startTime>>)]_vars

\* a run that had a tool round behind it when its second gateway call
\* failed, 500 ms after its start
C13_Witness ==
  \E r \in RunIds :
    /\ Finalized(r)
    /\ Count(hist[r], {"tool_ok"}) > 0
    /\ \E i \in DOMAIN hist[r] : hist[r][i] = H("update_error", <<"gateway error", 500>>)

\* ------------------------------------------------- release of the dedup key
\* C14: once a run has finalized, a request with its fingerprint is never
\* answered with its id, at whatever instant; and when no run with that
\* fingerprint is still in flight the request starts a fresh run.
C14_ReleasedAfterFinal ==
  [][ reply' # reply =>
        \A r \in RunIds :
          (Finalized(r) /\ run[r].dedupKey = reply'.key) =>
            /\ reply'.id # r
            /\ (\A q \in RunIds :
                  (Created(q) /\ run[q].dedupKey = reply'.key) => Finalized(q))
                 => (reply'.created /\ reply'.id = nextRunId) ]_vars

\* a fresh run created 500 ms after the start of a run with the same
\* fingerprint that had finalized before
C14_Witness ==
  /\ reply.created
  /\ \E r \in RunIds :
       /\ r < reply.id
       /\ Finalized(r)
       /\ run[r].doneWhen <= reply.id
       /\ run[r].dedupKey = reply.key
       /\ reply.at - run[r].startTime = 500

\* ------------------------------------------------------- sequence numbers
\* the sequence numbers the bus gave the events of run r, in publish order
Assigned(r) == [i \in DOMAIN Filter(hist[r], {"seq"}) |-> Filter(hist[r], {"seq"})[i][2]]

\* C15 as stated: the sequence numbers of one run start at 1 and increase
\* strictly over the whole run, whatever subscribers attach or disconnect: no
\* number is given to two events of the run.
C15_SequenceStrictlyIncreasing ==
  \A r \in RunIds :
    LET q == Assigned(r) IN
    /\ q # <<>> => q[1] = 1
    /\ \A i, j \in DOMAIN q : i < j => q[i] < q[j]

\* the sequence numbers written to a subscriber
DeliveredIds(c) == [k \in DOMAIN Delivered(sub[c].recv) |-> Delivered(sub[c].recv)[k][1]]

\* C16: the sequence numbers delivered to one subscription are consecutive
\* and increasing, with pings in between and whatever the other subscribers do.
C16_SubscriptionConsecutive ==
  \A c \in ClientIds :
    LET q == DeliveredIds(c) IN
    \A k \in DOMAIN q : k > 1 => q[k] = q[k - 1] + 1

\* a subscriber that got two numbered events with a ping between them, after
\* the other subscriber of the run was dropped for a failed write
C16_Witness ==
  \E c, d \in ClientIds :
    /\ c # d
    /\ sub[d].runId = sub[c].runId
    /\ sub[d].broken /\ ~sub[d].heartbeat /\ sub[d].state = "open"
    /\ \E k \in DOMAIN sub[c].recv :
         /\ k > 1 /\ k < Len(sub[c].recv)
         /\ sub[c].recv[k][2] = "ping"
         /\ sub[c].recv[k - 1][1] > 0
         /\ sub[c].recv[k + 1][1] = sub[c].recv[k - 1][1] + 1

\* C17 as stated: a subscription opened with Last-Event-ID n is sent only
\* events whose sequence number is greater than n.
C17_ResumeAfterLastSeen ==
  \A c \in ClientIds :
    \A k \in DOMAIN DeliveredIds(c) : DeliveredIds(c)[k] > sub[c].lastEventId

\* ---------------------------------------------------- terminal events
\* run r published a terminal event in this step
TerminalNow(r) == Count(hist'[r], TerminalKinds) > Count(hist[r], TerminalKinds)

\* C18: when done or error is published, every subscriber attached at that
\* moment (with a working sink) has the terminal event written while its sink
\* is still open and a grace timer is set; the bus ends a sink only after a
\* terminal event was written to it; and when the grace timer fires the sink
\* is closed, the heartbeat is cancelled and the subscriber is out of the set.
C18_TerminalThenClose ==
  [][ \A c \in ClientIds :
        LET r == sub[c].runId IN
        /\ ( /\ sub[c].state = "open"
             /\ c \in clients[r].members
             /\ ~sub[c].broken
             /\ TerminalNow(r) ) =>
               /\ \E k \in DOMAIN sub'[c].recv :
                    k > Len(sub[c].recv) /\ sub'[c].recv[k][2] \in TerminalKinds
               /\ sub'[c].state = "open"
               /\ timers'[c] > timers[c]
        /\ (sub[c].state = "open" /\ sub'[c].state = "ended") =>
               \E k \in DOMAIN sub[c].recv : sub[c].recv[k][2] \in TerminalKinds
        /\ timers'[c] < timers[c] =>
               /\ sub'[c].state # "open"
               /\ ~sub'[c].heartbeat
               /\ c \notin clients'[r].members ]_vars

\* a subscriber whose sink the bus ended after the done event
C18_Witness ==
  \E c \in ClientIds :
    /\ sub[c].state = "ended"
    /\ timers[c] = 0
    /\ ~sub[c].heartbeat
    /\ c \notin clients[sub[c].runId].members
    /\ Delivered(sub[c].recv)[Len(Delivered(sub[c].recv))][2] = "done"

\* C19: publishing to a run without subscribers changes nothing in the bus:
\* no subscriber set is created, no sequence number is consumed, nothing is
\* written or kept for anyone.
C19_NoSubscriberNoEffect ==
  [][ \A r \in RunIds :
        ( /\ Len(Published(hist'[r])) > Len(Published(hist[r]))
          /\ clients[r].members = {} ) =>
            /\ clients' = clients
            /\ ids' = ids
            /\ sub' = sub
            /\ timers' = timers
            /\ Assigned(r)' = Assigned(r) ]_vars

\* the subscriber set of a run is empty, its counter stands at the number of
\* the last numbered event, and an event was published and dropped after it
C19_Witness ==
  \E r \in RunIds :
    /\ clients[r].present
    /\ clients[r].members = {}
    /\ ids[r] > 0
    /\ \E i, j \in DOMAIN hist[r] :
         /\ i < j
         /\ hist[r][i] = H("seq", ids[r])
         /\ hist[r][j][1] \in EventKinds
         /\ \A k \in DOMAIN hist[r] : k > i => hist[r][k][1] # "seq"

\* C20: a subscriber that attached without a resumption marker after k events
\* is sent none of them: what it is sent are the events published after its
\* attach, in publish order, all of them while it is attached with a working
\* sink.
C20_OnlyEventsAfterAttach ==
  \A c \in ClientIds :
    (sub[c].state # "free" /\ sub[c].lastEventId = 0) =>
      LET r == sub[c].runId
          pub == Published(hist[r])
          got == Delivered(sub[c].recv)
          k == sub[c].attachedAt
      IN /\ Len(got) <= Len(pub) - k
         /\ \A i \in DOMAIN got : <<got[i][2], got[i][3]>> = pub[k + i]
         /\ (sub[c].state = "open" /\ c \in clients[r].members /\ ~sub[c].broken)
              => Len(got) = Len(pub) - k

\* a subscriber that attached after three events and was sent two later ones
C20_Witness ==
  \E c \in ClientIds :
    /\ sub[c].lastEventId = 0
    /\ sub[c].attachedAt = 3
    /\ Len(Delivered(sub[c].recv)) = 2

\* ------------------------------------------------ what the bus retains
\* the subscriptions ever opened for run r
Subscriptions(r) == { c \in ClientIds : sub[c].state # "free" /\ sub[c].runId = r }

\* C21: once every subscriber of a run has disconnected the bus holds neither
\* a subscriber set nor a sequence counter for the run, and no subscriber,
\* with or without a resumption marker, is sent an event that was published
\* before it attached.
C21_NothingRetained ==
  \A r \in RunIds :
    /\ (Subscriptions(r) # {} /\ \A c \in Subscriptions(r) : sub[c].state = "gone") =>
         (clients[r] = NoSet /\ ids[r] = 0)
    /\ \A c \in Subscriptions(r) :
         LET pub == Published(hist[r])
             got == Delivered(sub[c].recv)
         IN /\ Len(got) <= Len(pub) - sub[c].attachedAt
            /\ \A i \in DOMAIN got : <<got[i][2], got[i][3]>> = pub[sub[c].attachedAt + i]

\* the subscribers of a run in flight have all disconnected, one of them
\* after it was sent a numbered event
C21_Witness ==
  \E r \in RunIds :
    /\ ~Finalized(r)
    /\ \A c \in Subscriptions(r) : sub[c].state = "gone"
    /\ \E c \in Subscriptions(r) : Delivered(sub[c].recv) # <<>>
    /\ Len(Published(hist[r])) > Count(hist[r], {"seq"})

\* the pings written to a subscriber
Pings(recv) == Len(recv) - Len(Delivered(recv))

\* C22: a subscriber's heartbeat timer exists exactly while the subscriber
\* is registered and its sink open; a ping is written only by a live timer;
\* after the disconnect, the grace timer or the failed write no ping follows.
C22_HeartbeatWhileSubscribed ==
  /\ [](\A c \in ClientIds :
          sub[c].heartbeat <=>
            ( /\ sub[c].state = "open"
              /\ c \in clients[sub[c].runId].members ))
  /\ [][\A c \in ClientIds :
          Pings(sub'[c].recv) > Pings(sub[c].recv) =>
            ( /\ sub[c].heartbeat
              /\ sub[c].state = "open"
              /\ c \in clients[sub[c].runId].members )]_vars

\* a subscriber that was sent a ping and later dropped for a failed write
C22_Witness ==
  \E c \in ClientIds :
    /\ Pings(sub[c].recv) > 0
    /\ sub[c].broken
    /\ ~sub[c].heartbeat
    /\ c \notin clients[sub[c].runId].members

\* ------------------------------------------------------- non-interference
\* what run r did, without the sequence numbers of the bus
Processing(h) == SelectSeq(h, LAMBDA e : e[1] # "seq")

\* the context of run r had nobody ever subscribed to anything
Quiet(r) ==
  [Ctx(r) EXCEPT !.h = Processing(hist[r]),
                 !.bus = [clients |-> [q \in RunIds |-> NoSet],
                          ids |-> [q \in RunIds |-> 0],
                          sub |-> [c \in ClientIds |-> NoSub],
                          timers |-> [c \in ClientIds |-> 0]]]

\* the outcomes of the task that run r waits for, over every answer of the
\* gateway or of the broker
Steps(r, ctx) ==
  IF ctx.rs.pc = "awaitModel"
  THEN {GatewayRejects(r, ctx), NoChoice(r, ctx)}
         \cup { ToolCalls(r, calls, ctx) : calls \in CallLists }
         \cup { FinalResponse(r, w, ctx) : w \in 0..MaxWords }
  ELSE IF ctx.rs.pc = "streaming" THEN {AfterToken(r, ctx)}
  ELSE IF ctx.rs.pc = "awaitTool" THEN { ToolSettled(r, o, ctx) : o \in Outcomes }
  ELSE {}

\* a step of a started run does to the run, to its history and to the dedup
\* cache what it does when nobody ever subscribed
RunStepsIgnoreBus ==
  [][ \A r \in RunIds :
        (hist[r] # <<>> /\ hist'[r] # hist[r]) =>
          \E q \in Steps(r, Quiet(r)) :
            /\ q.rs = run'[r]
            /\ q.h = Processing(hist'[r])
            /\ q.cache = requestCache' ]_vars

\* C23 as stated: whatever subscribers do, a run goes through the steps that
\* the answers of the gateway and of the tools determine, and nothing a
\* subscriber does keeps a run in flight from taking its next step.
C23_SubscribersDoNotInterfere ==
  /\ RunStepsIgnoreBus
  /\ [](\A r \in RunIds : (Created(r) /\ ~Finalized(r)) => alive)
\* ------------------------------------------------------------ tool names
\* C24: a provider name and a tool name whose encoded function name is within
\* the length cap are recovered exactly by decoding the encoded name.
C24_RoundTrip ==
  (names.decoded # NoName /\ Len(Encoded(names.server, names.tool)) <= NAME_CAP)
    => /\ names.decoded.error = ""
       /\ names.decoded.server = names.server
       /\ names.decoded.tool = names.tool

\* ------------------------------------------------------------ tool broker
\* C25: when a function exposed to the model is invoked by its exposed name
\* with a well-formed argument payload, exactly one callTool is dispatched: to
\* the connection of the provider that advertised the tool and with that
\* provider's own name of the tool.
C25_ExposedNameRoutes ==
  \A e \in mcp.listed.result :
    (mcp.call.state \in {"calling", "settled"} /\ mcp.call.fn = e.name /\ mcp.call.argsOk)
      => mcp.call.sent = << [conn |-> ClientOf(mcp, e.server), tool |-> e.tool] >>

\* C26: with an empty allow-list the broker exposes every registered tool,
\* the functions it exposes for the pattern "*".
C26_EmptyAllowListAllowsAll ==
  (mcp.listed.asked /\ mcp.listed.patterns = <<>> /\ mcp.call.state = "idle")
    => mcp.listed.result = getOpenAIFunctionTools(mcp, << <<"*">> >>)

\* a function name without the prefix "mcp__" or of fewer than three segments
Malformed(fn) == ~StartsWith(fn, Mcp \o Sep) \/ Len(Split(fn)) < 3

\* C27: an invocation by a malformed function name has failed with the error
\* that names the defect as soon as it was made: it ran no reconnect pass and
\* it sent no call to a provider.
C27_MalformedNameFailsFast ==
  (mcp.call.state # "idle" /\ Malformed(mcp.call.fn))
    => /\ mcp.call.state = "settled"
       /\ mcp.call.error \in {"Not an MCP function", "Malformed MCP function name"}
       /\ mcp.call.passes = 0
       /\ mcp.pass = NoPass
       /\ mcp.call.sent = <<>>

\* a name of two segments was invoked while no provider was connected
C27_Witness ==
  /\ mcp.call.state = "settled"
  /\ mcp.call.fn = Mcp \o Sep \o <<"p">>
  /\ mcp.call.error = "Malformed MCP function name"
  /\ mcp.config # <<>>
  /\ mcp.clients = {}

\* the providers of the configuration file
Configured == { mcp.config[i].name : i \in DOMAIN mcp.config }

\* the tools of server in the registry
Registered(server) == { e.tool : e \in { t \in mcp.tools : t.server = server } }

\* C28: when a pass of discovery has ended, every configured provider that
\* the pass did not log as failed or left out is connected and has the tools it
\* advertises registered, wherever it stands in the configuration; after the
\* first pass no tool of a failed provider is registered.
C28_FailureSkipsOnlyThatProvider ==
  (mcp.phase = "up" /\ mcp.pass = NoPass)
    => /\ \A server \in Configured \ mcp.failed :
            /\ ClientOf(mcp, server) # 0
            /\ Registered(server) = Advertised(server)
       /\ mcp.invoked = 0 => \A server \in mcp.failed : Registered(server) = {}

\* the first provider of two failed and the second has its tools registered
C28_Witness ==
  /\ mcp.phase = "up"
  /\ mcp.invoked = 0
  /\ Len(mcp.config) = 2
  /\ mcp.failed = { mcp.config[1].name }
  /\ mcp.config[1].transport = "stdio"
  /\ Registered(mcp.config[2].name) # {}

MalformedBody(body) == body.user = "absent" \/ body.prompt # "string"

\* what a request leaves behind when a run is made of it
RunState == <<requestCache, nextRunId, run, hist, clients, ids, sub, timers>>

\* a body on which the handler raises a TypeError leaves nothing behind
TypeErrorRejects ==
  [][\A body \in Bodies, m \in 1..MaxStepsCap :
       (Throws(body) /\ Post(body, m)) => UNCHANGED RunState]_vars

\* C30: a request without the requester, without a prompt or with a prompt
\* that is not a string creates no run: no audit record, no processing, no
\* event and no entry of the dedup cache.
C30_MalformedRejected ==
  [][\A body \in Bodies, m \in 1..MaxStepsCap :
       (MalformedBody(body) /\ Post(body, m)) => UNCHANGED RunState]_vars

\* ------------------------------------------------- the claim and its release
\* C31: every entry of the dedup cache names a run that was started, and a
\* submit that fails at the audit insert leaves no entry for its fingerprint:
\* the identical request is not a duplicate in the instant of the failure.
C31_ReleasedOnFailure ==
  /\ [](\A k \in Keys : requestCache[k] # NoEntry => requestCache[k].runId < nextRunId)
  /\ [][\A req \in Requests :
          SubmitFails(req) => /\ requestCache'[DedupKey(req)] = NoEntry
                              /\ ~IsDuplicate(requestCache'[DedupKey(req)], clock')]_vars

\* the insert failed for a request whose fingerprint had an expired entry of a
\* run still in flight
C31_Witness ==
  /\ reply # NoReply
  /\ reply.id = 0
  /\ reply.at = clock
  /\ \E r \in RunIds : Created(r) /\ ~Finalized(r) /\ clock - run[r].startTime >= DEDUP_WINDOW_MS
                        /\ requestCache[run[r].dedupKey] = NoEntry

\* C32: after a submit, whether it claimed its fingerprint or found it
\* claimed, no entry of the dedup cache is older than the dedup window.
C32_NoExpiredEntryAfterClaim ==
  [][\A req \in Requests :
       Submit(req, 1) => \A k \in Keys :
                           requestCache'[k] # NoEntry
                             => clock' - requestCache'[k].timestamp <= DEDUP_WINDOW_MS]_vars

\* ------------------------------------------------------------ audit writes
FinalUpdates == {"update_ok", "update_error"}

\* C33: a run's first act is its one audit insert with status running; while
\* it is in flight it has made no final update, and once it has ended it has
\* made exactly one, to ok or to error.
C33_TwoAuditWrites ==
  \A r \in RunIds :
    /\ Count(hist[r], {"insert_running"}) = IF Created(r) THEN 1 ELSE 0
    /\ Created(r) => Head(hist[r]) = H("insert_running", 0)
    /\ Count(hist[r], FinalUpdates) = IF Finalized(r) THEN 1 ELSE 0

\* a run ended in error after a round of tool calls while another ended ok
C33_Witness ==
  \E r1, r2 \in RunIds :
    /\ Finalized(r1) /\ Finalized(r2)
    /\ Count(hist[r1], {"resp_tools"}) > 0
    /\ Count(hist[r1], {"update_error"}) = 1
    /\ Count(hist[r2], {"update_ok"}) = 1

\* --------------------------------------------------------------- termination
\* a run has ended: its terminal event is published, its audit status final
Terminated(r) ==
  /\ Finalized(r)
  /\ Count(hist[r], TerminalKinds) >= 1
  /\ Count(hist[r], FinalUpdates) = 1

\* C34: when every call of the Model Gateway and of a tool returns or fails,
\* every accepted run eventually has its final audit status and has published
\* its terminal event.
C34_EveryRunTerminates == \A r \in RunIds : Created(r) ~> Terminated(r)

\* ------------------------------------------------------ release by the owner
\* C36: the step in which a run finalizes leaves in place every entry of the
\* dedup cache that names another run.
C36_ReleaseOnlyOwnClaim ==
  [][\A r \in RunIds :
       (~Finalized(r) /\ Finalized(r)')
         => \A k \in Keys :
              (requestCache[k] # NoEntry /\ requestCache[k].runId # r)
                => requestCache'[k] = requestCache[k]]_vars

\* C37: every tool invocation executed in a run has its result passed to the
\* model in a later completion request: once the round of an executed call is
\* over, a completion request follows it; no tool is executed in a round
\* after which the step budget ends the loop.
C37_ToolResultsReachModel ==
  \A r \in RunIds :
    LET h == hist[r] IN
    \A i \in DOMAIN h :
      (h[i][1] \in ToolOps /\ run[r].pc # "awaitTool") =>
        \E j \in DOMAIN h : j > i /\ h[j][1] = "call"

\* the events of the history h that the bus gave a sequence number, as the
\* subscribers are sent them
RECURSIVE Emitted(_)
Emitted(h) ==
  IF Len(h) < 2 THEN <<>>
  ELSE IF h[2][1] = "seq"
       THEN <<<<h[2][2], h[1][1], h[1][2]>>>> \o Emitted(Tail(Tail(h)))
       ELSE Emitted(Tail(h))

\* C38: when the write of an event to one subscriber's sink throws, that
\* subscriber alone is removed and its heartbeat cancelled; every other
\* subscriber of the run stays registered, keeps its heartbeat and is sent
\* the same events with the same sequence numbers; the publisher sees no
\* error: the step records a failed run only if its gateway call threw.
C38_SinkFailureContained ==
  [][\A r \in RunIds :
       LET n == Len(hist[r])
           new == SubSeq(hist'[r], n + 1, Len(hist'[r]))
           ev == Emitted(new)
       IN ev # <<>> =>
            /\ \A c \in clients[r].members :
                 IF sub[c].broken
                 THEN /\ c \notin clients'[r].members
                      /\ ~sub'[c].heartbeat
                      /\ sub'[c].recv = sub[c].recv
                 ELSE /\ c \in clients'[r].members
                      /\ sub'[c].heartbeat = sub[c].heartbeat
                      /\ sub'[c].recv = sub[c].recv \o ev
            /\ Count(new, {"update_error"}) <= Count(new, {"resp_throw"})]_vars

\* one subscriber of a run was removed by a throwing write and has no
\* heartbeat, the other one was sent the run's events up to done, and the run
\* was recorded as ok
C38_Witness ==
  \E r \in RunIds, c, d \in ClientIds :
    /\ alive
    /\ c < d
    /\ sub[c].runId = r /\ sub[d].runId = r
    /\ sub[c].state = "open"
    /\ sub[c].broken /\ ~sub[c].heartbeat /\ c \notin clients[r].members
    /\ ~sub[d].broken
    /\ Len(Delivered(sub[d].recv)) > Len(Delivered(sub[c].recv))
    /\ \E i \in DOMAIN sub[d].recv : sub[d].recv[i][2] = "done"
    /\ Count(hist[r], {"update_ok"}) = 1

\* C39: a reconnect pass triggered by an invocation for a missing provider
\* leaves the connections and the registered tools of the already-connected
\* providers unchanged: no step of such a pass replaces a connection that
\* exists or changes the tools registered for a provider.
C39_ReconnectKeepsConnected ==
  [][mcp.pass.by = "call" =>
       \A server \in Configured :
         /\ ClientOf(mcp, server) # 0 =>
              ClientOf(mcp', server) = ClientOf(mcp, server)
         /\ Registered(server) # {} =>
              { e \in mcp'.tools : e.server = server } = { e \in mcp.tools : e.server = server }]_vars

\* ------------------------------------------------------ the client's events
\* C40: the streaming client hands each event it receives from the server to
\* onEvent exactly once, whatever its kind, and hands over nothing after a
\* done or an error.
C40_ForwardedExactlyOnce ==
  /\ \A i \in DOMAIN bot.received :
       Cardinality({ k \in DOMAIN bot.forwarded : bot.forwarded[k] = bot.received[i] }) = 1
  /\ \A k \in DOMAIN bot.forwarded :
       bot.forwarded[k][2] \in TerminalKinds => k = Len(bot.forwarded)
====
